---- MODULE Spec2Model ----
(***************************************************************************)
(* A model of trade_journal.py, the Streamlit trading journal.             *)
(*                                                                         *)
(* Every user interaction reruns the whole script: it loads the user's     *)
(* worksheet (lines 35-47), and when the form was submitted with a ticker  *)
(* and a positive entry price it computes the new row (lines 72-95) and    *)
(* replaces the worksheet by the loaded rows plus the new row (lines       *)
(* 97-113); otherwise it renders the dashboard (lines 116-161).  The calls *)
(* to the spreadsheet (read, update, add_worksheet) are the points where   *)
(* the script runs of different browser sessions interleave, and each of   *)
(* them can raise.                                                         *)
(*                                                                         *)
(* Units.  Prices (Entry, Exit, StopLoss, Target) are integers counting    *)
(* thousandths of a currency unit: the format "%.2f" of the price widgets  *)
(* only controls how they are displayed, not the value they return.        *)
(* Net_PnL is stored in hundredths of a currency unit and Return_Pct in    *)
(* hundredths of a percent, the two decimals round(x, 2) keeps.  Dates     *)
(* are day numbers; their order is the order of the '%Y-%m-%d' strings.    *)
(***************************************************************************)
EXTENDS Integers, Sequences, FiniteSets, TLC

VARIABLES
    tabs,        \* the worksheets (tabs) that exist in the spreadsheet
    sheet,       \* worksheet name -> its rows
    files,       \* the chart images saved on disk
    pc,          \* session -> where its script run stands
    req,         \* session -> the widget values of its current script run
    df,          \* session -> the DataFrame its run loaded
    new_row,     \* session -> the one-row DataFrame of its submission
    updated_df,  \* session -> pd.concat([df, new_row])
    outcome,     \* session -> what the run showed: none, saved or error
    nUpdate,     \* session -> conn.update calls of its current run
    nCreate,     \* session -> add_worksheet calls of its current run
    plot,        \* session -> the equity curve its dashboard shows
    saved,       \* worksheet name -> the rows reported as saved, in order
    nsub         \* form submissions so far

vars == <<tabs, sheet, files, pc, req, df, new_row, updated_df, outcome,
          nUpdate, nCreate, plot, saved, nsub>>

---------------------------------------------------------------------------
(* Bounds of the model. *)

MaxCalcSubmits == 2
MaxSoloSubmits == 3
MaxRaceSubmits == 2
MaxUserSubmits == 2
MaxDashSubmits == 3

---------------------------------------------------------------------------
(* Identities and worksheet names. *)

MaxTabLen == 31

Sessions == {"s1", "s2", "s3", "s4", "s5", "s6"}

LongLocal == [i \in 1..24 |-> "z"]

\* st.user.email of each session; s1 and s2 are two sessions of one user.
Email(s) ==
    CASE s \in {"s1", "s2"} -> <<"a", ".", "b", "@", "x", ".", "i", "o">>
      [] s = "s3" -> <<"a", "_", "b", "@", "x", ".", "i", "o">>
      [] s = "s4" -> <<"c", "@", "x", ".", "i", "o">>
      [] s = "s5" -> LongLocal \o <<"@", "m", ".", "i", "o", ".", "u", "k">>
      [] OTHER    -> LongLocal \o <<"@", "m", ".", "i", "o", ".", "u", "s">>

\* str.replace(old, new) on a string given as its characters.
Replace(str, old, new) ==
    [i \in 1..Len(str) |-> IF str[i] = old THEN new ELSE str[i]]

\* str[:n]
Prefix(str, n) == SubSeq(str, 1, IF Len(str) < n THEN Len(str) ELSE n)

Sanitize(email) ==
    Prefix(Replace(Replace(email, "@", "_"), ".", "_"), MaxTabLen)

\* The sanitized email of each session's user.
SanitizedEmail == [s \in Sessions |-> Sanitize(Email(s))]

WorksheetShared(s) == SanitizedEmail["s1"]

\* user_email, the worksheet a session reads and writes.
Worksheet(s) == SanitizedEmail[s]

\* The worksheet names of the identities.
Worksheets == {SanitizedEmail[s] : s \in Sessions}

---------------------------------------------------------------------------
(* The trade record computation. *)

\* The integers nearest to n / d, for d > 0: round() to the kept decimals.
\* A quotient exactly half way between two of them is rounded by Python
\* according to the binary floating point value, which lies on either side
\* of the decimal one, so both neighbours are possible.
Round(n, d) ==
    LET q == n \div d
        r == n % d
    IN  IF 2 * r < d THEN {q}
        ELSE IF 2 * r > d THEN {q + 1}
        ELSE {q, q + 1}

Status(exit_p) == IF exit_p > 0 THEN "Closed" ELSE "Open"

NetPnlUnguarded(trade_type, entry_p, exit_p, qty) ==
    IF trade_type = "LONG"
    THEN (exit_p - entry_p) * qty
    ELSE (entry_p - exit_p) * qty

NetPnlSwapped(trade_type, entry_p, exit_p, qty) ==
    IF trade_type = "LONG"
    THEN (IF exit_p > 0 THEN (entry_p - exit_p) * qty ELSE 0)
    ELSE (IF exit_p > 0 THEN (exit_p - entry_p) * qty ELSE 0)

NetPnlNoShort(trade_type, entry_p, exit_p, qty) ==
    IF exit_p > 0 THEN (exit_p - entry_p) * qty ELSE 0

\* net_pnl, in thousandths of a currency unit.
NetPnl(trade_type, entry_p, exit_p, qty) ==
    IF trade_type = "LONG"
    THEN (IF exit_p > 0 THEN (exit_p - entry_p) * qty ELSE 0)
    ELSE (IF exit_p > 0 THEN (entry_p - exit_p) * qty ELSE 0)

\* round(ret_pct, 2), in hundredths of a percent: the possible values.
RetPct(net_pnl, entry_p, exit_p, qty) ==
    IF exit_p > 0 THEN Round(net_pnl * 100 * 100, entry_p * qty) ELSE {0}

\* str.upper() on the tickers the model enters.
Upper(ticker) ==
    CASE ticker = "aapl" -> "AAPL"
      [] ticker = "tsla" -> "TSLA"
      [] OTHER -> ticker

AcceptedNoSymbolCheck(r) == r.submit /\ r.entry_p > 0

\* if submit and symbol and entry_p > 0
Accepted(r) == r.submit /\ Upper(r.ticker) # "" /\ r.entry_p > 0

Clock == {"093000"}

\* chart_path: the empty string, or IMAGE_DIR/symbol_date_HHMMSS.png
ChartPath(s, r, now) ==
    IF r.uploaded_file THEN <<Worksheet(s), Upper(r.ticker), r.date, now>>
    ELSE <<>>

\* The rows new_row can hold for a request: one row, whose two rounded
\* columns take any of the values round() can give.
NewRows(s, r, now) ==
    LET net_pnl == NetPnl(r.trade_type, r.entry_p, r.exit_p, r.qty)
    IN  { [Date |-> r.date, Symbol |-> Upper(r.ticker), Type |-> r.trade_type,
           Confidence |-> r.conf, Entry |-> r.entry_p, Exit |-> r.exit_p,
           Qty |-> r.qty, StopLoss |-> r.sl_p, Target |-> r.target_p,
           Net_PnL |-> n, Return_Pct |-> p, Status |-> Status(r.exit_p),
           Notes |-> r.notes, Chart_Path |-> ChartPath(s, r, now)] :
          n \in Round(net_pnl, 10),
          p \in RetPct(net_pnl, r.entry_p, r.exit_p, r.qty) }

---------------------------------------------------------------------------
(* The dashboard's equity curve. *)

Perms(n) == {p \in [1..n -> 1..n] : \A i, j \in 1..n : i # j => p[i] # p[j]}

Permuted(rows, p) == [i \in 1..Len(rows) |-> rows[p[i]]]

\* df[df['Status'] == 'Closed']
ClosedTrades(rows) == SelectSeq(rows, LAMBDA row : row.Status = "Closed")

\* sort_values("Date"): the default kind is quicksort, which pandas documents
\* as not stable, so rows of equal Date come out in any order.
SortValues(rows) ==
    { Permuted(rows, p) : p \in
        { q \in Perms(Len(rows)) :
            \A i, j \in 1..Len(rows) :
                i < j => rows[q[i]].Date <= rows[q[j]].Date } }

RECURSIVE CumSum(_)
\* Series.cumsum() of a sequence of numbers.
CumSum(xs) ==
    IF xs = <<>> THEN <<>>
    ELSE LET init == CumSum(SubSeq(xs, 1, Len(xs) - 1))
         IN  Append(init, (IF init = <<>> THEN 0 ELSE init[Len(init)])
                          + xs[Len(xs)])

\* plot_df.set_index("Date")['Cumulative_PnL'] for one sorted plot_df
Curve(plot_df) ==
    LET cum == CumSum([i \in 1..Len(plot_df) |-> plot_df[i].Net_PnL])
    IN  [i \in 1..Len(plot_df) |->
            [Date |-> plot_df[i].Date, Cumulative_PnL |-> cum[i]]]

\* The curves the dashboard can show for a loaded DataFrame.
EquityCurves(rows) ==
    IF rows = <<>> \/ ClosedTrades(rows) = <<>> THEN {<<>>}
    ELSE {Curve(plot_df) : plot_df \in SortValues(ClosedTrades(rows))}

---------------------------------------------------------------------------
(* The script run. *)

\* The widget values of a rerun that submits nothing.
ViewReq ==
    [submit |-> FALSE, date |-> 1, ticker |-> "", trade_type |-> "LONG",
     qty |-> 1, entry_p |-> 0, sl_p |-> 0, exit_p |-> 0, target_p |-> 0,
     conf |-> 80, uploaded_file |-> FALSE, notes |-> ""]

Init ==
    /\ tabs = {}
    /\ sheet = [t \in Worksheets |-> <<>>]
    /\ files = {}
    /\ pc = [s \in Sessions |-> "idle"]
    /\ req = [s \in Sessions |-> ViewReq]
    /\ df = [s \in Sessions |-> <<>>]
    /\ new_row = [s \in Sessions |-> <<>>]
    /\ updated_df = [s \in Sessions |-> <<>>]
    /\ outcome = [s \in Sessions |-> "none"]
    /\ nUpdate = [s \in Sessions |-> 0]
    /\ nCreate = [s \in Sessions |-> 0]
    /\ plot = [s \in Sessions |-> <<>>]
    /\ saved = [t \in Worksheets |-> <<>>]
    /\ nsub = 0

\* The user opens or reloads the page, or presses the form's button: the
\* script is queued to run with the widget values r.
Click(s, Reqs, MaxSubmits) ==
    /\ pc[s] = "idle"
    /\ \E r \in Reqs \cup {ViewReq} :
        /\ r.submit => nsub < MaxSubmits
        /\ req' = [req EXCEPT ![s] = r]
        /\ nsub' = IF r.submit THEN nsub + 1 ELSE nsub
    /\ pc' = [pc EXCEPT ![s] = "run"]
    /\ UNCHANGED <<tabs, sheet, files, df, new_row, updated_df, outcome,
                   nUpdate, nCreate, plot, saved>>

\* conn.read(worksheet=user_email, ttl=0) inside try/except Exception: the
\* rows of the worksheet, or the empty DataFrame when the read raises, be it
\* for a missing worksheet or for any other reason (readOk = FALSE).  The
\* numeric columns of the rows the script writes hold numbers, which
\* pd.to_numeric leaves as they are.
Load(s, readOk) ==
    IF readOk /\ Worksheet(s) \in tabs THEN sheet[Worksheet(s)] ELSE <<>>

\* The script runs from the top: it loads the worksheet, and either handles
\* the accepted submission up to its first conn.update, or renders the
\* dashboard.
Run(s) ==
    /\ pc[s] = "run"
    /\ \E readOk \in BOOLEAN :
        LET loaded == Load(s, readOk) IN
        /\ df' = [df EXCEPT ![s] = loaded]
        /\ \/ /\ Accepted(req[s])
              /\ \E now \in Clock : \E row \in NewRows(s, req[s], now) :
                    /\ files' = IF req[s].uploaded_file
                                THEN files \cup {row.Chart_Path}
                                ELSE files
                    /\ new_row' = [new_row EXCEPT ![s] = <<row>>]
                    /\ updated_df' = [updated_df EXCEPT ![s] = loaded \o <<row>>]
              /\ pc' = [pc EXCEPT ![s] = "update1"]
              /\ plot' = [plot EXCEPT ![s] = <<>>]
           \/ /\ ~Accepted(req[s])
              /\ \E curve \in EquityCurves(loaded) :
                    plot' = [plot EXCEPT ![s] = curve]
              /\ pc' = [pc EXCEPT ![s] = "idle"]
              /\ new_row' = [new_row EXCEPT ![s] = <<>>]
              /\ updated_df' = [updated_df EXCEPT ![s] = <<>>]
              /\ UNCHANGED files
    /\ outcome' = [outcome EXCEPT ![s] = "none"]
    /\ nUpdate' = [nUpdate EXCEPT ![s] = 0]
    /\ nCreate' = [nCreate EXCEPT ![s] = 0]
    /\ UNCHANGED <<tabs, sheet, req, saved, nsub>>

\* st.success(...) and st.rerun(): the script is queued again, its form
\* cleared.
Success(s) ==
    /\ outcome' = [outcome EXCEPT ![s] = "saved"]
    /\ saved' = [saved EXCEPT ![Worksheet(s)] = @ \o new_row[s]]
    /\ pc' = [pc EXCEPT ![s] = "run"]
    /\ req' = [req EXCEPT ![s] = ViewReq]

\* An exception no handler catches: the run ends showing the error.
Failure(s) ==
    /\ outcome' = [outcome EXCEPT ![s] = "error"]
    /\ pc' = [pc EXCEPT ![s] = "idle"]
    /\ UNCHANGED <<saved, req>>

WriteMerging(s) ==
    sheet' = [sheet EXCEPT ![Worksheet(s)] = @ \o new_row[s]]

\* conn.update(worksheet=user_email, data=updated_df) replaces the rows of
\* the worksheet by updated_df.
Write(s) ==
    sheet' = [sheet EXCEPT ![Worksheet(s)] = updated_df[s]]

\* The first conn.update (line 101).  It raises when the worksheet does not
\* exist, and can raise for any other reason; every exception leads to the
\* handler that creates the worksheet.
Update1(s) ==
    /\ pc[s] = "update1"
    /\ nUpdate' = [nUpdate EXCEPT ![s] = @ + 1]
    /\ \/ /\ Worksheet(s) \in tabs
          /\ Write(s)
          /\ Success(s)
       \/ /\ pc' = [pc EXCEPT ![s] = "create"]
          /\ UNCHANGED <<sheet, outcome, saved, req>>
    /\ UNCHANGED <<tabs, files, df, new_row, updated_df, nCreate, plot, nsub>>

\* spreadsheet.add_worksheet(title=user_email, ...) (lines 104-109).  It
\* raises when a worksheet of that title exists, and can raise for any other
\* reason; nothing catches the exception.
Create(s) ==
    /\ pc[s] = "create"
    /\ nCreate' = [nCreate EXCEPT ![s] = @ + 1]
    /\ \/ /\ Worksheet(s) \notin tabs
          /\ tabs' = tabs \cup {Worksheet(s)}
          /\ sheet' = [sheet EXCEPT ![Worksheet(s)] = <<>>]
          /\ pc' = [pc EXCEPT ![s] = "update2"]
          /\ UNCHANGED <<outcome, saved, req>>
       \/ /\ Failure(s)
          /\ UNCHANGED <<tabs, sheet>>
    /\ UNCHANGED <<files, df, new_row, updated_df, nUpdate, plot, nsub>>

Update2Swallow(s) ==
    /\ pc[s] = "update2"
    /\ nUpdate' = [nUpdate EXCEPT ![s] = @ + 1]
    /\ \/ /\ Worksheet(s) \in tabs
          /\ Write(s)
          /\ Success(s)
       \/ /\ Success(s)
          /\ UNCHANGED sheet
    /\ UNCHANGED <<tabs, files, df, new_row, updated_df, nCreate, plot, nsub>>

\* The second conn.update (line 110), inside the except block: an exception
\* it raises is caught by nothing.
Update2(s) ==
    /\ pc[s] = "update2"
    /\ nUpdate' = [nUpdate EXCEPT ![s] = @ + 1]
    /\ \/ /\ Worksheet(s) \in tabs
          /\ Write(s)
          /\ Success(s)
       \/ /\ Failure(s)
          /\ UNCHANGED sheet
    /\ UNCHANGED <<tabs, files, df, new_row, updated_df, nCreate, plot, nsub>>

---------------------------------------------------------------------------
(* The submissions the users make, and the specifications. *)

\* A filled form; the widgets keep qty >= 1, prices >= 0 and conf in 0..100.
Form(date, ticker, trade_type, qty, entry_p, exit_p, uploaded_file) ==
    [submit |-> TRUE, date |-> date, ticker |-> ticker,
     trade_type |-> trade_type, qty |-> qty, entry_p |-> entry_p,
     sl_p |-> 0, exit_p |-> exit_p, target_p |-> 0, conf |-> 80,
     uploaded_file |-> uploaded_file, notes |-> ""]

\* Trades entered at 3.000 and left open or closed a tenth of a cent, half a
\* cent or 1.00 higher, and the two worked examples (100 -> 120 x 10 long,
\* 50 -> 40 x 5 short).
CalcReqs ==
    { Form(1, "AAPL", t, q, e, x, FALSE) :
        t \in {"LONG", "SHORT"}, q \in {1, 3}, e \in {3000},
        x \in {0, 3001, 3005, 4000} }
    \cup { Form(1, "AAPL", "LONG", 10, 100000, 120000, FALSE),
           Form(1, "AAPL", "SHORT", 5, 50000, 40000, FALSE) }

SoloReqs ==
    { Form(d, k, "LONG", 10, e, x, u) :
        d \in {1, 2}, k \in {"", "aapl"}, e \in {0, 100000},
        x \in {0, 120000}, u \in BOOLEAN }

RaceReqs ==
    { Form(1, k, "LONG", 10, 100000, 120000, FALSE) : k \in {"aapl", "tsla"} }

UserReqs == { Form(1, "aapl", "LONG", 10, 100000, 120000, FALSE) }

\* Trades of 10.00 entered on three days: open, or closed at +10.00, +5.00
\* or -3.00.
DashReqs ==
    { Form(d, "AAPL", "LONG", 1, 10000, x, FALSE) :
        d \in {1, 2, 3}, x \in {0, 20000, 15000, 7000} }

Step(s, Reqs, MaxSubmits) ==
    \/ Click(s, Reqs, MaxSubmits)
    \/ Run(s)
    \/ Update1(s)
    \/ Create(s)
    \/ Update2(s)

NextCalc == \E s \in {"s1"} : Step(s, CalcReqs, MaxCalcSubmits)
NextSolo == \E s \in {"s1"} : Step(s, SoloReqs, MaxSoloSubmits)
NextRace == \E s \in {"s1", "s2"} : Step(s, RaceReqs, MaxRaceSubmits)
NextUsers ==
    \E s \in {"s1", "s3", "s4", "s5", "s6"} : Step(s, UserReqs, MaxUserSubmits)
NextDash == \E s \in {"s1"} : Step(s, DashReqs, MaxDashSubmits)

\* One session, the arithmetic of the record.
SpecCalc == Init /\ [][NextCalc]_vars
\* One session of one user.
SpecSolo == Init /\ [][NextSolo]_vars
\* Two sessions of one user.
SpecRace == Init /\ [][NextRace]_vars
\* Sessions of different users.
SpecUsers == Init /\ [][NextUsers]_vars
\* One session, the dashboard.
SpecDash == Init /\ [][NextDash]_vars

---------------------------------------------------------------------------
(* The properties of the stored record. *)

Abs(x) == IF x < 0 THEN -x ELSE x

IsPrefix(a, b) == Len(a) <= Len(b) /\ SubSeq(b, 1, Len(a)) = a

\* The rows stored in the spreadsheet.
Stored == UNION { {sheet[t][i] : i \in 1..Len(sheet[t])} : t \in tabs }

\* The profit of a closed trade before rounding, in thousandths.
Profit(row) ==
    IF row.Type = "LONG" THEN (row.Exit - row.Entry) * row.Qty
    ELSE (row.Entry - row.Exit) * row.Qty

\* C1: every stored row with Exit > 0 holds, to the nearest hundredth,
\* Net_PnL = (Exit - Entry) * Qty for LONG and (Entry - Exit) * Qty for
\* SHORT, and Return_Pct = that profit / (Entry * Qty) * 100; the long
\* 100 -> 120 x 10 holds 200.00 and 20.00, the short 50 -> 40 x 5 holds
\* 50.00 and 20.00.
C1_StoredPnl ==
    \A row \in Stored :
        row.Exit > 0 =>
            /\ Abs(10 * row.Net_PnL - Profit(row)) <= 5
            /\ 2 * Abs(row.Return_Pct * (row.Entry * row.Qty)
                       - Profit(row) * 100 * 100) <= row.Entry * row.Qty
            /\ (row.Type = "LONG" /\ row.Entry = 100000 /\ row.Exit = 120000
                    /\ row.Qty = 10)
                => row.Net_PnL = 20000 /\ row.Return_Pct = 2000
            /\ (row.Type = "SHORT" /\ row.Entry = 50000 /\ row.Exit = 40000
                    /\ row.Qty = 5)
                => row.Net_PnL = 5000 /\ row.Return_Pct = 2000

\* Both worked examples are stored.
C1_Witness ==
    /\ \E row \in Stored :
        row.Type = "LONG" /\ row.Entry = 100000 /\ row.Exit = 120000
            /\ row.Net_PnL = 20000
    /\ \E row \in Stored :
        row.Type = "SHORT" /\ row.Entry = 50000 /\ row.Exit = 40000
            /\ row.Net_PnL = 5000

\* C2: in every stored row Status is Closed exactly when Exit > 0, and an
\* Open row holds Net_PnL = 0 and Return_Pct = 0.
C2_StatusInvariant ==
    \A row \in Stored :
        /\ row.Status \in {"Open", "Closed"}
        /\ row.Status = "Closed" <=> row.Exit > 0
        /\ row.Status = "Open" => row.Net_PnL = 0 /\ row.Return_Pct = 0

\* An Open row and a Closed row are stored.
C2_Witness ==
    /\ \E row \in Stored : row.Status = "Open" /\ row.Exit = 0
    /\ \E row \in Stored : row.Status = "Closed" /\ row.Net_PnL # 0

\* C3 as stated: a stored LONG row with Exit > Entry, and a stored SHORT row
\* with Exit < Entry, holds Net_PnL > 0, whatever the exit price and however
\* small the price difference.
C3_Original ==
    \A row \in Stored :
        /\ (row.Type = "LONG" /\ row.Exit > row.Entry) => row.Net_PnL > 0
        /\ (row.Type = "SHORT" /\ row.Exit < row.Entry) => row.Net_PnL > 0

\* C3 as amended: with Exit > 0, a stored LONG row with Exit > Entry and a
\* stored SHORT row with Exit < Entry holds Net_PnL >= 0, and Net_PnL > 0
\* when the profit before rounding is at least 0.01; with Exit = 0 the row
\* holds Net_PnL = 0.
C3_Amended ==
    \A row \in Stored :
        LET wins == \/ row.Type = "LONG" /\ row.Exit > row.Entry
                    \/ row.Type = "SHORT" /\ row.Exit < row.Entry
        IN  /\ (row.Exit > 0 /\ wins) => row.Net_PnL >= 0
            /\ (row.Exit > 0 /\ wins /\ Profit(row) >= 10) => row.Net_PnL > 0
            /\ row.Exit = 0 => row.Net_PnL = 0

\* A winning long and a winning short of at least a cent are stored, next
\* to a winning long of less than half a cent that is stored as 0.
C3_Witness ==
    /\ \E row \in Stored :
        row.Type = "LONG" /\ row.Exit > row.Entry /\ Profit(row) >= 10
    /\ \E row \in Stored :
        /\ row.Type = "LONG" /\ row.Exit > row.Entry /\ Profit(row) < 5
        /\ row.Net_PnL = 0

\* C4: a run whose submission has an empty symbol or an entry price that is
\* not positive creates no row, writes and creates no worksheet and saves
\* no file: the spreadsheet and the disk are as before it.
C4_RejectedNoEffect ==
    [][\A s \in Sessions :
        ( /\ pc[s] = "run"
          /\ pc'[s] # "run"
          /\ req[s].submit
          /\ (Upper(req[s].ticker) = "" \/ req[s].entry_p <= 0) )
        => /\ tabs' = tabs
           /\ sheet' = sheet
           /\ files' = files
           /\ saved' = saved
           /\ new_row'[s] = <<>>
           /\ pc'[s] = "idle"]_vars

\* A rejected submission has run against a worksheet that holds rows.
C4_Witness ==
    \E s \in Sessions :
        /\ pc[s] = "idle"
        /\ req[s].submit
        /\ (Upper(req[s].ticker) = "" \/ req[s].entry_p <= 0)
        /\ Worksheet(s) \in tabs
        /\ sheet[Worksheet(s)] # <<>>
        /\ df[s] = sheet[Worksheet(s)]

---------------------------------------------------------------------------
(* The properties of the ledger store. *)

\* The ledger a read yields for the user of session u.
LedgerOf(u) ==
    IF SanitizedEmail[u] \in tabs THEN sheet[SanitizedEmail[u]] ELSE <<>>

\* C5 as stated: with one session of one identity, whose worksheet did not
\* exist at first, the worksheet holds exactly the rows of the submissions
\* reported as saved, in the order of their submission.
C5_Original == LedgerOf("s1") = saved[SanitizedEmail["s1"]]

\* C6: a submission calls add_worksheet at most once and conn.update at most
\* twice; it reports success only in the step of a conn.update that replaced
\* the worksheet by its updated_df; a first update against a missing
\* worksheet leads to the creation, a successful creation to the one retry,
\* and a failed creation or a failed retry ends the run with the error
\* shown, nothing written and no success reported.
C6_RetryOnce ==
    /\ [](\A s \in Sessions : nCreate[s] <= 1 /\ nUpdate[s] <= 2)
    /\ [][\A s \in Sessions :
            /\ (outcome'[s] = "saved" /\ pc'[s] # pc[s])
                => /\ pc[s] \in {"update1", "update2"}
                   /\ nUpdate'[s] = nUpdate[s] + 1
                   /\ Worksheet(s) \in tabs'
                   /\ sheet'[Worksheet(s)] = updated_df[s]
            /\ (pc[s] = "update1" /\ pc'[s] # pc[s] /\ Worksheet(s) \notin tabs)
                => pc'[s] = "create" /\ outcome'[s] = "none" /\ sheet' = sheet
            /\ (pc[s] = "create" /\ pc'[s] # pc[s])
                => \/ /\ pc'[s] = "update2"
                      /\ Worksheet(s) \in tabs'
                      /\ nCreate'[s] = 1
                      /\ outcome'[s] = "none"
                   \/ /\ pc'[s] = "idle"
                      /\ outcome'[s] = "error"
                      /\ sheet' = sheet /\ tabs' = tabs /\ saved' = saved
            /\ (pc[s] = "update2" /\ pc'[s] # pc[s])
                => /\ nUpdate'[s] = 2
                   /\ \/ /\ outcome'[s] = "saved"
                         /\ sheet'[Worksheet(s)] = updated_df[s]
                      \/ /\ pc'[s] = "idle"
                         /\ outcome'[s] = "error"
                         /\ sheet' = sheet /\ saved' = saved
         ]_vars

\* A submission was saved by the retry that followed the creation, while
\* another one ended with the error of a failed creation.
C6_Witness ==
    /\ \E s \in Sessions :
        nCreate[s] = 1 /\ nUpdate[s] = 2 /\ outcome[s] = "saved"
    /\ \E s \in Sessions :
        nCreate[s] = 1 /\ nUpdate[s] = 1 /\ outcome[s] = "error"

\* C7 as stated: no step of a session changes the ledger that a session of
\* another email address reads.
C7_Original ==
    [][\A s, u \in Sessions :
        (Email(s) # Email(u) /\ pc'[s] # pc[s])
            => LedgerOf(u)' = LedgerOf(u)]_vars

\* C7 as amended: no step of a session changes the ledger that a session
\* reads whose sanitized worksheet name differs from its own.
C7_Amended ==
    [][\A s, u \in Sessions :
        (SanitizedEmail[s] # SanitizedEmail[u] /\ pc'[s] # pc[s])
            => LedgerOf(u)' = LedgerOf(u)]_vars

\* A user has saved a row while the ledger of a user with another worksheet
\* name is still empty.
C7_Witness ==
    \E s, u \in Sessions :
        /\ SanitizedEmail[s] # SanitizedEmail[u]
        /\ outcome[s] = "saved"
        /\ LedgerOf(s) # <<>>
        /\ LedgerOf(u) = <<>>

\* The Closed rows in ascending Date, rows of equal Date in ledger order.
StableSorted(rows) ==
    Permuted(rows,
        CHOOSE q \in Perms(Len(rows)) :
            \A i, j \in 1..Len(rows) :
                i < j => \/ rows[q[i]].Date < rows[q[j]].Date
                         \/ /\ rows[q[i]].Date = rows[q[j]].Date
                            /\ q[i] < q[j])

\* C8 as stated: the curve a rendered dashboard shows is built from the
\* Closed rows in ascending Date, rows of equal Date in ledger order, its
\* k-th value the sum of the first k Net_PnL; rows dated [3, 1, 2] with
\* Net_PnL [10, 5, -3] give dates [1, 2, 3] and values [5, 2, 12].
C8_Original ==
    \A s \in Sessions :
        (pc[s] = "idle" /\ outcome[s] = "none")
            => /\ plot[s] = Curve(StableSorted(ClosedTrades(df[s])))
               /\ ( /\ Len(df[s]) = 3
                    /\ \A i \in 1..3 : df[s][i].Status = "Closed"
                    /\ [i \in 1..3 |-> df[s][i].Date] = <<3, 1, 2>>
                    /\ [i \in 1..3 |-> df[s][i].Net_PnL] = <<1000, 500, -300>> )
                  => plot[s] = << [Date |-> 1, Cumulative_PnL |-> 500],
                                  [Date |-> 2, Cumulative_PnL |-> 200],
                                  [Date |-> 3, Cumulative_PnL |-> 1200] >>

\* C9: the step in which a submission is reported as saved leaves the
\* worksheet holding the ledger that submission's run had read, followed by
\* its row.
C9_LastWriterWins ==
    [][\A s \in Sessions :
        (outcome'[s] = "saved" /\ pc'[s] # pc[s])
            => /\ Len(new_row[s]) = 1
               /\ sheet'[Worksheet(s)] = df[s] \o new_row[s]
               /\ \A t \in Worksheets \ {Worksheet(s)} : sheet'[t] = sheet[t]
      ]_vars

\* The lost update: both sessions read the ledger before either wrote, both
\* submissions were reported as saved, and the worksheet holds only the row
\* of the second writer.
C9_Witness ==
    LET t == Worksheet("s1") IN
    /\ outcome["s1"] = "saved" /\ outcome["s2"] = "saved"
    /\ df["s1"] = <<>> /\ df["s2"] = <<>>
    /\ new_row["s1"] # new_row["s2"]
    /\ saved[t] = new_row["s1"] \o new_row["s2"]
    /\ sheet[t] = new_row["s2"]

\* C10 as stated: every row stored in a worksheet is still in it, unchanged
\* and at the same position, after every step.
C10_AppendOnly ==
    [][\A t \in Worksheets :
        t \in tabs => t \in tabs' /\ IsPrefix(sheet[t], sheet'[t])]_vars

====
